---------------------------- MODULE Spec2Model ----------------------------
(***************************************************************************)
(* Model of the InForce ROI calculator: the object returned by             *)
(* calculator() in js/calculator.js (four assignable inputs, static        *)
(* assumptions, and getters computing the Productivity Value Gap figures)  *)
(* and the productivity curves built by initProductivityChart() in         *)
(* js/chart.js.                                                            *)
(*                                                                         *)
(* Every JavaScript number is an IEEE-754 binary64 value.  The getters     *)
(* multiply by 0.30 and 0.05 and divide by 12 before Math.round, so the    *)
(* rounding of each floating-point operation decides the turnover event    *)
(* counts.  Numbers are therefore modelled as binary64 values with         *)
(* round-to-nearest-even arithmetic, not as rationals.                     *)
(***************************************************************************)
EXTENDS Integers, Sequences, FiniteSets, TLC

(***************************************************************************)
(* Natural numbers of arbitrary size: little-endian sequences of limbs in  *)
(* base 2^15, without leading zero limbs (zero is the empty sequence).     *)
(* They carry the 53-bit significands, which do not fit a machine integer  *)
(* of the model checker.                                                   *)
(***************************************************************************)
Base == 2^15

RECURSIVE Pow2(_)
Pow2(k) == IF k = 0 THEN 1 ELSE 2 * Pow2(k - 1)

Limb(a, i) == IF i <= Len(a) THEN a[i] ELSE 0

RECURSIVE BNorm(_)
BNorm(a) ==
    IF a = <<>> THEN <<>>
    ELSE IF a[Len(a)] = 0 THEN BNorm(SubSeq(a, 1, Len(a) - 1))
    ELSE a

RECURSIVE BFromInt(_)
BFromInt(n) == IF n = 0 THEN <<>> ELSE <<n % Base>> \o BFromInt(n \div Base)

RECURSIVE BCmpFrom(_, _, _)
BCmpFrom(a, b, i) ==
    IF i = 0 THEN 0
    ELSE IF a[i] < b[i] THEN -1
    ELSE IF a[i] > b[i] THEN 1
    ELSE BCmpFrom(a, b, i - 1)

\* -1, 0 or 1 as a < b, a = b, a > b
BCmp(a, b) ==
    IF Len(a) < Len(b) THEN -1
    ELSE IF Len(a) > Len(b) THEN 1
    ELSE BCmpFrom(a, b, Len(a))

RECURSIVE BAddFrom(_, _, _, _)
BAddFrom(a, b, i, c) ==
    IF i > Len(a) /\ i > Len(b)
    THEN (IF c = 0 THEN <<>> ELSE <<c>>)
    ELSE LET s == Limb(a, i) + Limb(b, i) + c
         IN  <<s % Base>> \o BAddFrom(a, b, i + 1, s \div Base)

BAdd(a, b) == BAddFrom(a, b, 1, 0)

RECURSIVE BSubFrom(_, _, _, _)
BSubFrom(a, b, i, c) ==
    IF i > Len(a) THEN <<>>
    ELSE LET s == a[i] - Limb(b, i) - c
         IN  IF s < 0 THEN <<s + Base>> \o BSubFrom(a, b, i + 1, 1)
                      ELSE <<s>> \o BSubFrom(a, b, i + 1, 0)

\* a - b, for a >= b
BSub(a, b) == BNorm(BSubFrom(a, b, 1, 0))

RECURSIVE BMulLimbFrom(_, _, _, _)
BMulLimbFrom(a, d, i, c) ==
    IF i > Len(a) THEN (IF c = 0 THEN <<>> ELSE <<c>>)
    ELSE LET s == a[i] * d + c
         IN  <<s % Base>> \o BMulLimbFrom(a, d, i + 1, s \div Base)

\* a * d, for one limb d
BMulLimb(a, d) == IF d = 0 THEN <<>> ELSE BMulLimbFrom(a, d, 1, 0)

Zeros(n) == [i \in 1..n |-> 0]

RECURSIVE BMulFrom(_, _, _)
BMulFrom(a, b, j) ==
    IF j > Len(b) THEN <<>>
    ELSE LET p == BMulLimb(a, b[j])
         IN  BAdd(IF p = <<>> THEN <<>> ELSE Zeros(j - 1) \o p,
                  BMulFrom(a, b, j + 1))

BMul(a, b) == IF a = <<>> \/ b = <<>> THEN <<>> ELSE BMulFrom(a, b, 1)

\* a * 2^k
BShl(a, k) ==
    IF a = <<>> THEN <<>>
    ELSE Zeros(k \div 15) \o BMulLimb(a, Pow2(k % 15))

\* floor(a / 2^k)
BShr(a, k) ==
    LET q == k \div 15
        r == k % 15
        lo == Pow2(r)
        hi == Pow2(15 - r)
    IN  IF q >= Len(a) THEN <<>>
        ELSE BNorm([i \in 1..(Len(a) - q) |->
                       (a[i + q] \div lo) + (Limb(a, i + q + 1) % lo) * hi])

RECURSIVE BitLenInt(_)
BitLenInt(n) == IF n = 0 THEN 0 ELSE 1 + BitLenInt(n \div 2)

BBitLen(a) == IF a = <<>> THEN 0 ELSE 15 * (Len(a) - 1) + BitLenInt(a[Len(a)])

RECURSIVE TrailingZerosInt(_)
TrailingZerosInt(n) == IF n % 2 = 1 THEN 0 ELSE 1 + TrailingZerosInt(n \div 2)

RECURSIVE BTrailingZerosFrom(_, _)
BTrailingZerosFrom(a, i) ==
    IF a[i] = 0 THEN 15 + BTrailingZerosFrom(a, i + 1)
    ELSE TrailingZerosInt(a[i])

\* number of trailing zero bits of a > 0
BTrailingZeros(a) == BTrailingZerosFrom(a, 1)

BIsOdd(a) == a # <<>> /\ a[1] % 2 = 1

RECURSIVE BToInt(_)
BToInt(a) == IF a = <<>> THEN 0 ELSE a[1] + Base * BToInt(Tail(a))

\* k steps of binary long division: from st = <<q, r>> with r < d to
\* <<floor((q * d + r) * 2^k / d), the remainder>>
RECURSIVE BDivSteps(_, _, _)
BDivSteps(st, d, k) ==
    IF k = 0 THEN st
    ELSE LET r2 == BAdd(st[2], st[2])
             q2 == BAdd(st[1], st[1])
         IN  IF BCmp(r2, d) >= 0
             THEN BDivSteps(<<BAdd(q2, <<1>>), BSub(r2, d)>>, d, k - 1)
             ELSE BDivSteps(<<q2, r2>>, d, k - 1)

\* short division of the limbs a[1..i] by one limb d, from the top limb down,
\* with the remainder rem carried in: <<quotient, remainder>>
RECURSIVE BDivLimbFrom(_, _, _, _)
BDivLimbFrom(a, d, i, rem) ==
    IF i = 0 THEN <<<<>>, rem>>
    ELSE LET cur == rem * Base + a[i]
             rest == BDivLimbFrom(a, d, i - 1, cur % d)
         IN  <<Append(rest[1], cur \div d), rest[2]>>

\* <<floor(a / d), a mod d>> for one limb d > 0
BDivLimb(a, d) ==
    LET qr == BDivLimbFrom(a, d, Len(a), 0)
    IN  <<BNorm(qr[1]), qr[2]>>

(***************************************************************************)
(* JavaScript values.  A finite number is sign * m * 2^e with m odd (or    *)
(* zero with e = 0 and s = 1), so that equal numbers are equal records.    *)
(* The significand m has at most 53 bits.  Exponent overflow and           *)
(* subnormals are not modelled: every magnitude the calculator produces    *)
(* from the modelled inputs lies between 2^-60 and 2^60.  Negative zero is *)
(* identified with zero.                                                   *)
(***************************************************************************)
NaN       == [k |-> "nan",       s |-> 1, m |-> <<>>, e |-> 0]
Undefined == [k |-> "undefined", s |-> 1, m |-> <<>>, e |-> 0]
Zero      == [k |-> "num",       s |-> 1, m |-> <<>>, e |-> 0]
Infinity(sgn) == [k |-> "inf", s |-> sgn, m |-> <<>>, e |-> 0]

IsNumber(x) == x.k = "num"
IsZero(x) == x.k = "num" /\ x.m = <<>>

\* ToNumber of the ECMAScript specification: undefined converts to NaN
ToNumber(v) == IF v.k = "undefined" THEN NaN ELSE v

\* the number sgn * m * 2^e, m of at most 53 bits, in canonical form
Canon(sgn, m, e) ==
    IF m = <<>> THEN Zero
    ELSE LET z == BTrailingZeros(m)
         IN  [k |-> "num", s |-> sgn, m |-> BShr(m, z), e |-> e + z]

\* sgn * m * 2^e rounded to 53 significant bits, ties to even
RoundPack(sgn, m, e) ==
    LET L == BBitLen(m)
        n == IF L > 53 THEN L - 53 ELSE 1
        q == BShr(m, n)
        rem == BSub(m, BShl(q, n))
        c == BCmp(rem, BShl(<<1>>, n - 1))
        up == c > 0 \/ (c = 0 /\ BIsOdd(q))
    IN  Canon(sgn,
              IF L <= 53 THEN m ELSE IF up THEN BAdd(q, <<1>>) ELSE q,
              IF L <= 53 THEN e ELSE e + n)

\* an integer of the model as a JavaScript number
FromInt(n) == Canon(IF n < 0 THEN -1 ELSE 1, BFromInt(IF n < 0 THEN -n ELSE n), 0)

FNeg(x0) ==
    LET x == ToNumber(x0)
    IN  IF x.k = "nan" \/ IsZero(x) THEN x ELSE [x EXCEPT !.s = -x.s]

\* x * y
FMul(x0, y0) ==
    LET x == ToNumber(x0)
        y == ToNumber(y0)
    IN  IF x.k = "nan" \/ y.k = "nan" THEN NaN
        ELSE IF x.k = "inf" \/ y.k = "inf"
             THEN (IF IsZero(x) \/ IsZero(y) THEN NaN ELSE Infinity(x.s * y.s))
        ELSE RoundPack(x.s * y.s, BMul(x.m, y.m), x.e + y.e)

\* x / y
FDiv(x0, y0) ==
    LET x == ToNumber(x0)
        y == ToNumber(y0)
    IN  IF x.k = "nan" \/ y.k = "nan" THEN NaN
        ELSE IF x.k = "inf"
             THEN (IF y.k = "inf" THEN NaN ELSE Infinity(x.s * y.s))
        ELSE IF y.k = "inf" THEN Zero
        ELSE IF IsZero(y)
             THEN (IF IsZero(x) THEN NaN ELSE Infinity(x.s))
        ELSE IF IsZero(x) THEN Zero
        ELSE LET lx == BBitLen(x.m)
                 ly == BBitLen(y.m)
                 u == IF ly > lx THEN ly - lx ELSE 0
                 t == IF lx > ly THEN lx - ly ELSE 0
                 a == BShl(x.m, u)
                 b == BShl(y.m, t)
                 ge == BCmp(a, b) >= 0
                 \* <<quotient, remainder is not zero, exponent of the quotient>>:
                 \* for a divisor of one limb, short division of x.m * 2^75, whose
                 \* quotient has at least 60 bits; otherwise 56 steps of binary
                 \* long division of the operands aligned to the same length
                 qre == IF Len(y.m) = 1
                        THEN LET qr == BDivLimb(Zeros(5) \o x.m, y.m[1])
                             IN  <<qr[1], qr[2] # 0, x.e - y.e - 75>>
                        ELSE LET qr == BDivSteps(<<IF ge THEN <<1>> ELSE <<>>,
                                                   IF ge THEN BSub(a, b) ELSE a>>, b, 56)
                             IN  <<qr[1], qr[2] # <<>>, (x.e - u) - (y.e - t) - 56>>
                 \* the remainder is kept as a sticky lowest bit
                 mm == BAdd(BAdd(qre[1], qre[1]), IF qre[2] THEN <<1>> ELSE <<>>)
             IN  RoundPack(x.s * y.s, mm, qre[3] - 1)

\* -1, 0, 1 as x < y, x = y, x > y, for finite numbers
FCmp(x, y) ==
    IF IsZero(x) /\ IsZero(y) THEN 0
    ELSE IF IsZero(x) THEN -y.s
    ELSE IF IsZero(y) THEN x.s
    ELSE IF x.s # y.s THEN x.s
    ELSE LET e == IF x.e < y.e THEN x.e ELSE y.e
         IN  x.s * BCmp(BShl(x.m, x.e - e), BShl(y.m, y.e - e))

\* x + y
FAdd(x0, y0) ==
    LET x == ToNumber(x0)
        y == ToNumber(y0)
    IN  IF x.k = "nan" \/ y.k = "nan" THEN NaN
        ELSE IF x.k = "inf"
             THEN (IF y.k = "inf" /\ y.s # x.s THEN NaN ELSE x)
        ELSE IF y.k = "inf" THEN y
        ELSE IF IsZero(x) THEN y
        ELSE IF IsZero(y) THEN x
        ELSE LET e == IF x.e < y.e THEN x.e ELSE y.e
                 a == BShl(x.m, x.e - e)
                 b == BShl(y.m, y.e - e)
                 c == BCmp(a, b)
                 hi == IF c >= 0 THEN a ELSE b
                 lo == IF c >= 0 THEN b ELSE a
             IN  IF x.s # y.s /\ c = 0 THEN Zero
                 ELSE RoundPack(IF c >= 0 THEN x.s ELSE y.s,
                                IF x.s = y.s THEN BAdd(hi, lo) ELSE BSub(hi, lo),
                                e)

\* x - y
FSub(x0, y0) == FAdd(x0, FNeg(y0))

\* x < y, x <= y, x === y of JavaScript (false when either side is NaN)
FLt(x0, y0) ==
    LET x == ToNumber(x0)
        y == ToNumber(y0)
    IN  IF x.k = "nan" \/ y.k = "nan" THEN FALSE
        ELSE IF x.k = "inf" THEN x.s = -1 /\ ~(y.k = "inf" /\ y.s = -1)
        ELSE IF y.k = "inf" THEN y.s = 1
        ELSE FCmp(x, y) < 0

StrictEq(x, y) == x.k # "nan" /\ y.k # "nan" /\ x = y

FLe(x0, y0) == FLt(x0, y0) \/ StrictEq(ToNumber(x0), ToNumber(y0))

\* Math.round: the integer nearest to x, a tie going toward +Infinity
MathRound(x0) ==
    LET x == ToNumber(x0)
    IN  IF x.k # "num" \/ x.e >= 0 THEN x
        ELSE LET n == -x.e
                 half == BShl(<<1>>, n - 1)
                 \* floor(m / 2^n + 1/2), and for x < 0 ceil(m / 2^n - 1/2)
                 up == BShr(BAdd(x.m, half), n)
                 down == IF BCmp(x.m, half) <= 0 THEN <<>>
                         ELSE BShr(BAdd(BSub(x.m, half), BSub(BShl(<<1>>, n), <<1>>)), n)
             IN  Canon(x.s, IF x.s = 1 THEN up ELSE down, 0)

\* Math.min
MathMin(x0, y0) ==
    LET x == ToNumber(x0)
        y == ToNumber(y0)
    IN  IF x.k = "nan" \/ y.k = "nan" THEN NaN
        ELSE IF FLt(y, x) THEN y ELSE x

\* a finite number that is an integer: m odd, so exactly when e >= 0
IsInteger(x) == x.k = "num" /\ x.e >= 0

\* a decimal literal n/d of the source: the binary64 number nearest to it
Literal(n, d) == FDiv(FromInt(n), FromInt(d))

\* obj[key] on a plain object: undefined for a key the object does not have
Lookup(obj, key) == IF key \in DOMAIN obj THEN obj[key] ELSE Undefined

(***************************************************************************)
(* Bounds of the model: the values the environment may assign to the       *)
(* inputs.                                                                 *)
(***************************************************************************)
MaxRateSteps == 1
MaxTeamSteps == 3
MaxDurationSteps == 7

HourlyRates == {0} \cup {200 + 50 * i : i \in 0..MaxRateSteps}
TeamSizes == {0, 1} \cup {6 * i : i \in 1..MaxTeamSteps}
ProjectDurations == {18} \cup {5 * i : i \in 0..MaxDurationSteps}
ValidLevels == {"junior", "mixed", "senior"}
ExperienceLevels == ValidLevels \cup {"expert"}

(***************************************************************************)
(* js/calculator.js: the object calculator() returns.  The three numeric   *)
(* inputs are kept as integers of the model (the values of the sliders)    *)
(* and converted where a getter reads them; the static assumptions are     *)
(* fields of the same object and are kept as JavaScript numbers.           *)
(***************************************************************************)
calculator ==
    [ hourlyRate         |-> 200,
      teamSize           |-> 12,
      projectDuration    |-> 18,
      experienceLevel    |-> "mixed",
      inForceTurnover    |-> Literal(5, 100),
      competitorTurnover |-> Literal(30, 100),
      vacancyWeeks       |-> FromInt(2),
      vacancyPayment     |-> FromInt(1),
      onboardingDays     |-> FromInt(5),
      onboardingPayment  |-> FromInt(1),
      rampUpTimelines    |-> [junior |-> FromInt(60),
                              mixed  |-> FromInt(45),
                              senior |-> FromInt(30)] ]

\* this[f] for a getter f of the object: the getter runs with this object
RECURSIVE Get(_, _)

hoursPerWeek(this) == FromInt(40)

weeksPerYear(this) == FromInt(52)

projectWeeks(this) == FromInt(this.projectDuration)


\* a faulty getter: the level is ignored and the mixed timeline returned
rampUpDaysDefaulted(this) == this.rampUpTimelines.mixed

rampUpDays(this) == Lookup(this.rampUpTimelines, this.experienceLevel)


\* a faulty getter: the Math.round is missing
competitorTurnoverEventsUnrounded(this) ==
    LET annualEvents == FMul(this.competitorTurnover, FromInt(this.teamSize))
        projectEvents == FMul(annualEvents,
                              FDiv(FromInt(this.projectDuration), FromInt(12)))
    IN  projectEvents

competitorTurnoverEvents(this) ==
    LET annualEvents == FMul(this.competitorTurnover, FromInt(this.teamSize))
        projectEvents == FMul(annualEvents,
                              FDiv(FromInt(this.projectDuration), FromInt(12)))
    IN  MathRound(projectEvents)

inforceTurnoverEvents(this) ==
    LET annualEvents == FMul(this.inForceTurnover, FromInt(this.teamSize))
        projectEvents == FMul(annualEvents,
                              FDiv(FromInt(this.projectDuration), FromInt(12)))
    IN  MathRound(projectEvents)

idleTimeCost(this) ==
    LET hours == FMul(this.vacancyWeeks, Get(this, "hoursPerWeek"))
        cost == FMul(FMul(hours, FromInt(this.hourlyRate)), this.vacancyPayment)
    IN  cost

onboardingCost(this) ==
    LET hours == FMul(FDiv(this.onboardingDays, FromInt(5)),
                      Get(this, "hoursPerWeek"))
        cost == FMul(FMul(hours, FromInt(this.hourlyRate)), this.onboardingPayment)
    IN  cost

rampUpCost(this) ==
    LET rampUpWeeks == FDiv(Get(this, "rampUpDays"), FromInt(5))
        hours == FMul(rampUpWeeks, Get(this, "hoursPerWeek"))
        averageProductivity == Literal(5, 10)
        productivityGap == FSub(FromInt(1), averageProductivity)
        cost == FMul(FMul(hours, FromInt(this.hourlyRate)), productivityGap)
    IN  cost


\* a faulty getter: the hours lost per event, not multiplied by the rate
costPerEventInHours(this) ==
    FAdd(FAdd(FMul(this.vacancyWeeks, Get(this, "hoursPerWeek")),
              FMul(FDiv(this.onboardingDays, FromInt(5)), Get(this, "hoursPerWeek"))),
         FMul(FDiv(Get(this, "rampUpDays"), FromInt(5)), Get(this, "hoursPerWeek")))

costPerEvent(this) ==
    FAdd(FAdd(Get(this, "idleTimeCost"), Get(this, "onboardingCost")),
         Get(this, "rampUpCost"))

competitorTotal(this) ==
    FMul(Get(this, "competitorTurnoverEvents"), Get(this, "costPerEvent"))


\* a faulty getter: the InForce total leaves the ramp-up cost out
inforceTotalWithoutRampUp(this) ==
    FMul(Get(this, "inforceTurnoverEvents"),
         FAdd(Get(this, "idleTimeCost"), Get(this, "onboardingCost")))

inforceTotal(this) ==
    FMul(Get(this, "inforceTurnoverEvents"), Get(this, "costPerEvent"))

savings(this) == FSub(Get(this, "competitorTotal"), Get(this, "inforceTotal"))


\* a faulty getter: no guard against a competitorTotal of 0
\* a faulty getter: the savings as a share of the project budget
savingsPercentageOfBudget(this) ==
    IF StrictEq(Get(this, "competitorTotal"), Zero) THEN Zero
    ELSE FMul(FDiv(Get(this, "savings"), Get(this, "projectBudget")),
              FromInt(100))

savingsPercentageUnguarded(this) ==
    FMul(FDiv(Get(this, "savings"), Get(this, "competitorTotal")), FromInt(100))

savingsPercentage(this) ==
    IF StrictEq(Get(this, "competitorTotal"), Zero) THEN Zero
    ELSE FMul(FDiv(Get(this, "savings"), Get(this, "competitorTotal")),
              FromInt(100))

projectBudget(this) ==
    LET weeks == FMul(FromInt(this.projectDuration), Literal(433, 100))
        totalHours == FMul(FMul(FromInt(this.teamSize), Get(this, "hoursPerWeek")),
                           weeks)
    IN  FMul(totalHours, FromInt(this.hourlyRate))

Get(this, f) ==
    CASE f = "hoursPerWeek"             -> hoursPerWeek(this)
      [] f = "weeksPerYear"             -> weeksPerYear(this)
      [] f = "projectWeeks"             -> projectWeeks(this)
      [] f = "rampUpDays"               -> rampUpDays(this)
      [] f = "competitorTurnoverEvents" -> competitorTurnoverEvents(this)
      [] f = "inforceTurnoverEvents"    -> inforceTurnoverEvents(this)
      [] f = "idleTimeCost"             -> idleTimeCost(this)
      [] f = "onboardingCost"           -> onboardingCost(this)
      [] f = "rampUpCost"               -> rampUpCost(this)
      [] f = "costPerEvent"             -> costPerEvent(this)
      [] f = "competitorTotal"          -> competitorTotal(this)
      [] f = "inforceTotal"             -> inforceTotal(this)
      [] f = "savings"                  -> savings(this)
      [] f = "savingsPercentage"        -> savingsPercentage(this)
      [] f = "projectBudget"            -> projectBudget(this)

\* the getters a caller reads
DerivedFields ==
    { "rampUpDays", "competitorTurnoverEvents", "inforceTurnoverEvents",
      "idleTimeCost", "onboardingCost", "rampUpCost", "costPerEvent",
      "competitorTotal", "inforceTotal", "savings", "savingsPercentage",
      "projectBudget" }

(***************************************************************************)
(* js/chart.js                                                             *)
(***************************************************************************)

\* a faulty loop body: the ramp is not clamped at 100
CurvePointUnclamped(rampUpWeeks, week) ==
    IF week < 3 THEN Zero
    ELSE FMul(FDiv(FromInt(week - 3), FromInt(rampUpWeeks)), FromInt(100))

\* a faulty loop body: the ramp starts with the onboarding week (week 2)
CurvePointRampFromOnboarding(rampUpWeeks, week) ==
    IF week < 2 THEN Zero
    ELSE MathMin(FromInt(100),
                 FMul(FDiv(FromInt(week - 2), FromInt(rampUpWeeks)), FromInt(100)))

\* the loop body of generateProductivityCurve for one week
CurvePoint(rampUpWeeks, week) ==
    IF week < 2 THEN Zero
    ELSE IF week < 3 THEN Zero
    ELSE LET weeksIntoRampUp == FromInt(week - 3)
             productivity ==
                 MathMin(FromInt(100),
                         FMul(FDiv(weeksIntoRampUp, FromInt(rampUpWeeks)), FromInt(100)))
         IN  productivity

RECURSIVE CurveLoop(_, _, _)
CurveLoop(rampUpWeeks, week, curve) ==
    IF week <= 12
    THEN CurveLoop(rampUpWeeks, week + 1, Append(curve, CurvePoint(rampUpWeeks, week)))
    ELSE curve

generateProductivityCurve(rampUpWeeks) == CurveLoop(rampUpWeeks, 0, <<>>)

seniorCurve == generateProductivityCurve(6)
mixedCurve == generateProductivityCurve(9)
juniorCurve == generateProductivityCurve(12)

\* Array.from({ length: 13 }, (_, i) => i)
labels == [i \in 1..13 |-> i - 1]

(***************************************************************************)
(* State.                                                                  *)
(*   calc   the calculator object                                          *)
(*   ret    the value a getter has returned to its caller and the caller   *)
(*          has not yet taken ("idle" between calls: JavaScript runs one   *)
(*          call at a time)                                                *)
(*   chart  the productivity chart of the page: "pending" until the        *)
(*          DOMContentLoaded handler has run, then built or "failed".      *)
(*          The browser delivers no input event before the handler has     *)
(*          run, so the inputs are assigned only afterwards.               *)
(***************************************************************************)
VARIABLES calc, ret, chart

vars == <<calc, ret, chart>>

Idle == [k |-> "idle", field |-> "", value |-> Zero]

Init ==
    /\ calc = calculator
    /\ ret = Idle
    /\ chart = [k |-> "pending", labels |-> <<>>, datasets |-> <<>>]

\* assignments to the four inputs (the sliders and the level selector)
SetHourlyRate(v) ==
    /\ ret.k = "idle"
    /\ chart.k # "pending"
    /\ calc' = [calc EXCEPT !.hourlyRate = v]
    /\ UNCHANGED <<ret, chart>>

SetTeamSize(v) ==
    /\ ret.k = "idle"
    /\ chart.k # "pending"
    /\ calc' = [calc EXCEPT !.teamSize = v]
    /\ UNCHANGED <<ret, chart>>

SetProjectDuration(v) ==
    /\ ret.k = "idle"
    /\ chart.k # "pending"
    /\ calc' = [calc EXCEPT !.projectDuration = v]
    /\ UNCHANGED <<ret, chart>>


\* a faulty assignment: the selected level's days are also written into the
\* object's table of timelines, under "mixed"
SetExperienceLevelStoring(v) ==
    /\ ret.k = "idle"
    /\ chart.k # "pending"
    /\ calc' = [calc EXCEPT !.experienceLevel = v,
                            !.rampUpTimelines.mixed = Lookup(calc.rampUpTimelines, v)]
    /\ UNCHANGED <<ret, chart>>

SetExperienceLevel(v) ==
    /\ ret.k = "idle"
    /\ chart.k # "pending"
    /\ calc' = [calc EXCEPT !.experienceLevel = v]
    /\ UNCHANGED <<ret, chart>>

\* a caller reads the getter f: the getter runs to completion on the object
Read(f) ==
    /\ ret.k = "idle"
    /\ ret' = [k |-> "value", field |-> f, value |-> Get(calc, f)]
    /\ UNCHANGED <<calc, chart>>

\* the caller takes the returned value
Return ==
    /\ ret.k = "value"
    /\ ret' = Idle
    /\ UNCHANGED <<calc, chart>>

\* initProductivityChart, as called by the DOMContentLoaded handler
initProductivityChart(ctx) ==
    IF ~ctx
    THEN [k |-> "failed", labels |-> <<>>, datasets |-> <<>>]
    ELSE [k |-> "chart", labels |-> labels,
          datasets |-> <<seniorCurve, mixedCurve, juniorCurve>>]

\* the DOMContentLoaded handler; whether Chart.js is loaded and whether the
\* canvas element exists are the page's, not the script's
DOMContentLoaded ==
    /\ chart.k = "pending"
    /\ ret.k = "idle"
    /\ \E chartJsLoaded \in BOOLEAN, ctx \in BOOLEAN :
          chart' = IF ~chartJsLoaded
                   THEN [k |-> "failed", labels |-> <<>>, datasets |-> <<>>]
                   ELSE initProductivityChart(ctx)
    /\ UNCHANGED <<calc, ret>>

Next ==
    \/ \E v \in HourlyRates : SetHourlyRate(v)
    \/ \E v \in TeamSizes : SetTeamSize(v)
    \/ \E v \in ProjectDurations : SetProjectDuration(v)
    \/ \E v \in ExperienceLevels : SetExperienceLevel(v)
    \/ \E f \in DerivedFields : Read(f)
    \/ Return
    \/ DOMContentLoaded

Spec == Init /\ [][Next]_vars

(***************************************************************************)
(* generateProductivityCurve as a function of its parameter: a call with   *)
(* any positive whole number of weeks, the returned array held in ret      *)
(* until the caller takes it.                                              *)
(***************************************************************************)
MaxRampUpWeeks == 100

RampUpWeeks == 1..MaxRampUpWeeks

GenerateCurve(rampUpWeeks) ==
    /\ ret.k = "idle"
    /\ ret' = [k |-> "value", field |-> "generateProductivityCurve",
               value |-> [rampUpWeeks |-> rampUpWeeks,
                          curve |-> generateProductivityCurve(rampUpWeeks)]]
    /\ UNCHANGED <<calc, chart>>

CurveNext ==
    \/ \E rampUpWeeks \in RampUpWeeks : GenerateCurve(rampUpWeeks)
    \/ Return

CurveSpec == Init /\ [][CurveNext]_vars

(***************************************************************************)
(* Properties.                                                             *)
(***************************************************************************)
\* a read of getter f has returned
RetIs(f) == ret.k = "value" /\ ret.field = f

\* x lies within one unit of the integer n
Near(x, n) == FLt(FromInt(n - 1), x) /\ FLt(x, FromInt(n + 1))

DefaultInputs ==
    /\ calc.hourlyRate = 200
    /\ calc.teamSize = 12
    /\ calc.projectDuration = 18
    /\ calc.experienceLevel = "mixed"

\* C1: with the default inputs (200, 12, 18, mixed) the calculator returns 5
\* competitor and 1 InForce turnover events, a competitor total of about
\* $332,000, an InForce total of about $66,400, savings of about $265,600
\* (each to the dollar) and a savings percentage of 80.0%.
C1_ExampleCalculation ==
    (DefaultInputs /\ ret.k = "value") =>
        /\ ret.field = "competitorTurnoverEvents" => ret.value = FromInt(5)
        /\ ret.field = "inforceTurnoverEvents" => ret.value = FromInt(1)
        /\ ret.field = "competitorTotal" => Near(ret.value, 332000)
        /\ ret.field = "inforceTotal" => Near(ret.value, 66400)
        /\ ret.field = "savings" => Near(ret.value, 265600)
        /\ ret.field = "savingsPercentage" =>
              /\ FLe(Literal(7995, 100), ret.value)
              /\ FLt(ret.value, Literal(8005, 100))

\* the getters whose value depends on rampUpDays
RampUpDependent ==
    { "rampUpDays", "rampUpCost", "costPerEvent", "competitorTotal",
      "inforceTotal", "savings", "savingsPercentage" }

\* C2: with an experienceLevel that is not junior, mixed or senior, a read of
\* rampUpDays or of a getter depending on it fails: it returns no value.
C2_InvalidLevelFails ==
    (ret.k = "value" /\ ret.field \in RampUpDependent) =>
        calc.experienceLevel \in ValidLevels

\* a calculator fresh from calculator() that is given the four inputs
FreshWith(h, t, d, l) ==
    [calculator EXCEPT !.hourlyRate = h, !.teamSize = t,
                       !.projectDuration = d, !.experienceLevel = l]

\* C3: after any sequence of assignments to the four inputs (and of reads),
\* the value a getter returns is the value the same getter returns on a fresh
\* calculator holding the current four inputs: it depends on no earlier input
\* and no earlier read.
C3_ReadsDependOnCurrentInputsOnly ==
    ret.k = "value" =>
        ret.value = Get(FreshWith(calc.hourlyRate, calc.teamSize,
                                  calc.projectDuration, calc.experienceLevel),
                        ret.field)

\* every input has been assigned a value other than its default, then read
C3_Witness ==
    /\ RetIs("savings")
    /\ calc.hourlyRate # 200
    /\ calc.teamSize # 12
    /\ calc.projectDuration # 18
    /\ calc.experienceLevel = "junior"

\* C4: savingsPercentage is exactly 0 whenever competitorTotal is 0, and
\* savings / competitorTotal * 100 otherwise; with a valid experience level
\* it is a finite number, never NaN or an infinity.
C4_ZeroDivisionGuard ==
    RetIs("savingsPercentage") =>
        LET total == Get(calc, "competitorTotal")
        IN  /\ IF StrictEq(total, Zero)
               THEN ret.value = Zero
               ELSE ret.value = FMul(FDiv(Get(calc, "savings"), total), FromInt(100))
            /\ calc.experienceLevel \in ValidLevels => IsNumber(ret.value)

\* a team and a duration so small that the competitor event count rounds to 0
C4_Witness ==
    /\ RetIs("savingsPercentage")
    /\ ret.value = Zero
    /\ calc.teamSize > 0
    /\ calc.projectDuration > 0
    /\ calc.hourlyRate > 0
    /\ calc.experienceLevel \in ValidLevels

\* a step that raises hourlyRate and leaves the other inputs alone
RaisesHourlyRate ==
    /\ calc'.hourlyRate > calc.hourlyRate
    /\ calc' = [calc EXCEPT !.hourlyRate = calc'.hourlyRate]
    /\ calc.experienceLevel \in ValidLevels

StrictlyIncreases(f) == FLt(Get(calc, f), Get(calc', f))

\* C5 as stated: when at least one turnover event occurs, any increase of
\* hourlyRate strictly increases costPerEvent, competitorTotal and
\* inforceTotal.
C5_RateMonotoneAsStated ==
    [][ (RaisesHourlyRate /\ FLe(FromInt(1), Get(calc, "competitorTurnoverEvents")))
          => /\ StrictlyIncreases("costPerEvent")
             /\ StrictlyIncreases("competitorTotal")
             /\ StrictlyIncreases("inforceTotal") ]_vars

\* C5, amended: any increase of hourlyRate strictly increases costPerEvent;
\* it strictly increases competitorTotal when the competitor event count is
\* at least 1, and inforceTotal when the InForce event count is at least 1.
C5_RateMonotone ==
    [][ RaisesHourlyRate
          => /\ StrictlyIncreases("costPerEvent")
             /\ FLe(FromInt(1), Get(calc, "competitorTurnoverEvents"))
                   => StrictlyIncreases("competitorTotal")
             /\ FLe(FromInt(1), Get(calc, "inforceTurnoverEvents"))
                   => StrictlyIncreases("inforceTotal") ]_vars

\* the rate has been raised above its default and a positive InForce total read
C5_Witness ==
    /\ RetIs("inforceTotal")
    /\ calc.hourlyRate > 200
    /\ calc.experienceLevel \in ValidLevels
    /\ FLt(Zero, ret.value)

EventCounts == {"competitorTurnoverEvents", "inforceTurnoverEvents"}

Costs ==
    { "idleTimeCost", "onboardingCost", "rampUpCost", "costPerEvent",
      "competitorTotal", "inforceTotal" }

\* C6: for non-negative inputs and a valid experience level, both turnover
\* event counts are non-negative integers and the three cost components,
\* costPerEvent and both totals are numbers >= 0.
C6_NonNegative ==
    (ret.k = "value" /\ calc.experienceLevel \in ValidLevels) =>
        /\ ret.field \in EventCounts =>
              IsInteger(ret.value) /\ FLe(Zero, ret.value)
        /\ ret.field \in Costs =>
              IsNumber(ret.value) /\ FLe(Zero, ret.value)

\* an event count read where rate * teamSize * duration / 12 is no integer
C6_Witness ==
    /\ RetIs("competitorTurnoverEvents")
    /\ calc.teamSize = 12
    /\ calc.projectDuration = 18
    /\ ret.value = FromInt(5)

\* a step that changes experienceLevel from a to b and nothing else
LevelStep(a, b) ==
    /\ calc.experienceLevel = a
    /\ calc' = [calc EXCEPT !.experienceLevel = b]

\* C7: for a positive hourlyRate, rampUpCost for senior < for mixed < for
\* junior, while idleTimeCost, onboardingCost and both turnover event counts
\* are the same for the three levels.
C7_ExperienceSensitivity ==
    [][ (LevelStep("senior", "mixed") \/ LevelStep("mixed", "junior")
            \/ LevelStep("senior", "junior"))
          => /\ calc.hourlyRate > 0 => StrictlyIncreases("rampUpCost")
             /\ \A f \in {"idleTimeCost", "onboardingCost"} \cup EventCounts :
                   Get(calc, f) = Get(calc', f) ]_vars

C7_Witness ==
    /\ RetIs("rampUpCost")
    /\ calc.experienceLevel = "junior"
    /\ calc.hourlyRate > 0
    /\ FLt(Zero, ret.value)

\* the three curves of the chart
CurveShape(curve) ==
    /\ Len(curve) = 13
    /\ curve[1] = Zero
    /\ curve[2] = Zero

\* C8 as stated: each of the three curves (6, 9 and 12 weeks) has 13 points,
\* is 0 at weeks 0 and 1, and ends at exactly 100.
C8_CurvesReach100 ==
    chart.k = "chart" =>
        \A i \in 1..3 :
            /\ CurveShape(chart.datasets[i])
            /\ chart.datasets[i][13] = FromInt(100)

\* C8, amended: each of the three curves has 13 points and is 0 at weeks 0
\* and 1; the curves for 6 and 9 weeks end at exactly 100, the curve for 12
\* weeks ends at 75 (it has not reached 100% by week 12).
C8_CurveBoundary ==
    chart.k = "chart" =>
        /\ \A i \in 1..3 : CurveShape(chart.datasets[i])
        /\ chart.datasets[1][13] = FromInt(100)
        /\ chart.datasets[2][13] = FromInt(100)
        /\ chart.datasets[3][13] = FromInt(75)

C8_Witness == chart.k = "chart" /\ Len(chart.datasets) = 3

\* the integer a finite integral number denotes
ToInt(x) == x.s * BToInt(x.m) * Pow2(x.e)

\* C9: competitorTotal = competitorTurnoverEvents * costPerEvent and
\* inforceTotal = inforceTurnoverEvents * costPerEvent, with the one
\* costPerEvent, and savings = competitorTotal - inforceTotal exactly: with a
\* valid experience level all of them are integers and the equations hold in
\* integer arithmetic.
C9_SavingsConsistency ==
    (ret.k = "value" /\ calc.experienceLevel \in ValidLevels) =>
        /\ ret.field = "competitorTotal" =>
              /\ StrictEq(ret.value, FMul(Get(calc, "competitorTurnoverEvents"),
                                          Get(calc, "costPerEvent")))
              /\ ToInt(ret.value) = ToInt(Get(calc, "competitorTurnoverEvents"))
                                       * ToInt(Get(calc, "costPerEvent"))
        /\ ret.field = "inforceTotal" =>
              /\ StrictEq(ret.value, FMul(Get(calc, "inforceTurnoverEvents"),
                                          Get(calc, "costPerEvent")))
              /\ ToInt(ret.value) = ToInt(Get(calc, "inforceTurnoverEvents"))
                                       * ToInt(Get(calc, "costPerEvent"))
        /\ ret.field = "savings" =>
              /\ StrictEq(ret.value, FSub(Get(calc, "competitorTotal"),
                                          Get(calc, "inforceTotal")))
              /\ ToInt(ret.value) = ToInt(Get(calc, "competitorTotal"))
                                       - ToInt(Get(calc, "inforceTotal"))

C9_Witness ==
    /\ RetIs("savings")
    /\ calc.experienceLevel \in ValidLevels
    /\ FLt(Zero, Get(calc, "inforceTotal"))
    /\ FLt(Zero, ret.value)

\* C10: the event count of a party with annual rate r is r * teamSize *
\* projectDuration / 12 rounded to the nearest integer, an exact half going
\* up.  With r = 30/100 the product is teamSize * projectDuration / 40, with
\* r = 5/100 it is teamSize * projectDuration / 240.
C10_RoundHalfUp ==
    /\ RetIs("competitorTurnoverEvents") =>
          ret.value = FromInt((calc.teamSize * calc.projectDuration + 20) \div 40)
    /\ RetIs("inforceTurnoverEvents") =>
          ret.value = FromInt((calc.teamSize * calc.projectDuration + 120) \div 240)

\* the finite number v is the quotient n / d of the naturals n and d > 0 to
\* within a relative error of 2^-51 (two roundings of the Number arithmetic)
WithinRounding(v, n, d) ==
    IF n = 0 THEN v = Zero
    ELSE /\ IsNumber(v) /\ ~IsZero(v) /\ v.s = 1
         /\ LET a == BShl(BMul(v.m, BFromInt(d)), IF v.e > 0 THEN v.e ELSE 0)
                b == BShl(BFromInt(n), IF v.e < 0 THEN -v.e ELSE 0)
                diff == IF BCmp(a, b) >= 0 THEN BSub(a, b) ELSE BSub(b, a)
            IN  BCmp(BShl(diff, 51), b) <= 0

\* C11: for every positive rampUpWeeks the curve has a value for each week
\* w in 0..12; the value is 0 when w < 3 and min(100, (w - 3) / rampUpWeeks
\* * 100) when w >= 3, both as the Number expression and, to within
\* rounding, as the exact quotient (exactly 100 from week 3 + rampUpWeeks
\* on, below 100 before); every value lies in [0, 100] and the sequence is
\* non-decreasing in w.
C11_CurveFormula ==
    RetIs("generateProductivityCurve") =>
        LET r == ret.value.rampUpWeeks
            curve == ret.value.curve
        IN  /\ Len(curve) = 13
            /\ \A w \in 0..12 :
                  LET v == curve[w + 1]
                  IN  /\ IsNumber(v)
                      /\ w < 3 => v = Zero
                      /\ w >= 3 =>
                            /\ v = MathMin(FromInt(100),
                                           FMul(FDiv(FromInt(w - 3), FromInt(r)),
                                                FromInt(100)))
                            /\ IF w - 3 >= r
                               THEN v = FromInt(100)
                               ELSE /\ FLt(v, FromInt(100))
                                    /\ WithinRounding(v, 100 * (w - 3), r)
                      /\ FLe(Zero, v) /\ FLe(v, FromInt(100))
                      /\ w < 12 => FLe(v, curve[w + 2])

\* a curve for a duration the chart does not use, with a point strictly
\* inside the ramp and a clamped final point
C11_Witness ==
    /\ RetIs("generateProductivityCurve")
    /\ ret.value.rampUpWeeks = 7
    /\ FLt(Zero, ret.value.curve[5]) /\ FLt(ret.value.curve[5], FromInt(100))
    /\ ret.value.curve[13] = FromInt(100)

\* the percentage the two event counts alone determine
PercentageOfEvents(competitor, inforce) ==
    IF StrictEq(competitor, Zero) THEN Zero
    ELSE FMul(FDiv(FSub(competitor, inforce), competitor), FromInt(100))

\* what C12 says of a value read, for hourly rates from the set rates
SavingsBounds(rates) ==
    (ret.k = "value" /\ calc.experienceLevel \in ValidLevels
                     /\ calc.hourlyRate \in rates) =>
        LET competitor == Get(calc, "competitorTurnoverEvents")
            inforce == Get(calc, "inforceTurnoverEvents")
        IN  /\ RetIs("inforceTurnoverEvents") => FLe(ret.value, competitor)
            /\ RetIs("savings") => FLe(Zero, ret.value)
            /\ RetIs("savingsPercentage") =>
                  /\ FLe(Zero, ret.value) /\ FLe(ret.value, FromInt(100))
                  /\ ret.value = PercentageOfEvents(competitor, inforce)
                  /\ (inforce = Zero /\ FLe(FromInt(1), competitor)) =>
                        ret.value = FromInt(100)

\* a step that changes hourlyRate or experienceLevel only, within rates and
\* the valid levels, leaves savingsPercentage as it was
PercentageUnchanged(rates) ==
    ( /\ calc' # calc
      /\ calc' = [calc EXCEPT !.hourlyRate = calc'.hourlyRate,
                              !.experienceLevel = calc'.experienceLevel]
      /\ {calc.experienceLevel, calc'.experienceLevel} \subseteq ValidLevels
      /\ {calc.hourlyRate, calc'.hourlyRate} \subseteq rates ) =>
        Get(calc', "savingsPercentage") = Get(calc, "savingsPercentage")

\* C12 as stated: for every non-negative teamSize, projectDuration and
\* hourlyRate and valid experienceLevel, inforceTurnoverEvents <=
\* competitorTurnoverEvents, savings >= 0, 0 <= savingsPercentage <= 100,
\* savingsPercentage is the percentage of the two event counts, unchanged by
\* any change of hourlyRate or experienceLevel, and exactly 100 when the
\* InForce event count is 0 and the competitor event count is at least 1.
C12_PercentageOfEventsAsStated ==
    [](SavingsBounds(HourlyRates)) /\ [][PercentageUnchanged(HourlyRates)]_vars

\* C12, amended: the same for every positive hourlyRate; with hourlyRate 0
\* (competitorTotal 0) and a valid level savingsPercentage is 0 whatever
\* the event counts.
C12_PercentageOfEvents ==
    /\ [](SavingsBounds(HourlyRates \ {0}))
    /\ [][PercentageUnchanged(HourlyRates \ {0})]_vars
    /\ []((RetIs("savingsPercentage") /\ calc.hourlyRate = 0
                /\ calc.experienceLevel \in ValidLevels) => ret.value = Zero)

\* no InForce event, at least one competitor event, a positive hourly rate:
\* the percentage read is 100
C12_Witness ==
    /\ RetIs("savingsPercentage")
    /\ calc.experienceLevel \in ValidLevels
    /\ calc.hourlyRate > 0
    /\ Get(calc, "inforceTurnoverEvents") = Zero
    /\ FLe(FromInt(1), Get(calc, "competitorTurnoverEvents"))
    /\ ret.value = FromInt(100)

=============================================================================
